---- MODULE Spec2Model ----
(***************************************************************************)
(* Model of packages/react/src/ReactBaseClasses.js (Component,             *)
(* PureComponent, their prototypes and the deprecated accessors) and of    *)
(* the feature-flag-gated part of packages/react/src/React.js.             *)
(*                                                                         *)
(* JavaScript values are strings; objects live in a heap that maps an      *)
(* object id to its prototype link, its own property descriptors and its   *)
(* frozen flag.  Property reads walk the prototype chain as [[Get]] does.  *)
(***************************************************************************)
EXTENDS Naturals, Sequences, FiniteSets, TLC

VARIABLES DEV, enableStableConcurrentModeAPIs, heap, React, pc,
          constructed, trace, calls, warnings

vars == <<DEV, enableStableConcurrentModeAPIs, heap, React, pc,
          constructed, trace, calls, warnings>>

\* ------------------------------------------------------------------ bounds
\* the number of operations (constructions, method calls, property reads)
\* performed on the instances in one behaviour
MaxSteps == 4

\* ------------------------------------------------------- JavaScript values
undefined == "undefined"
null == "null"

Objects == {"obj1", "props1", "props2", "context1", "updater1"}
Functions == {"fn1", "callback1"}
Numbers == {"1"}
Strings == {"'s'"}
Booleans == {"true"}

\* typeof v (typeof null is 'object')
TypeOf(v) ==
  CASE v = undefined -> "undefined"
    [] v = null -> "object"
    [] v \in Objects -> "object"
    [] v \in Functions -> "function"
    [] v \in Numbers -> "number"
    [] v \in Strings -> "string"
    [] v \in Booleans -> "boolean"
    [] OTHER -> "object"

\* ToBoolean(v), as used by the || operator
Truthy(v) == v \notin {undefined, null, "0", "''", "false", "NaN"}

\* ------------------------------------------------------------------ inputs
\* <<props, context, updater>> given to a constructor
ConstructorArgs == {<<"props1", "context1", undefined>>,
                    <<"props2", undefined, "updater1">>}
\* <<partialState, callback>> given to setState: one partialState of each type
SetStateArgs == {<<"obj1", undefined>>, <<"fn1", "callback1">>,
                 <<null, "callback1">>, <<undefined, undefined>>,
                 <<"1", undefined>>, <<"'s'", "callback1">>,
                 <<"true", undefined>>}
Callbacks == {undefined, "callback1"}
InstanceIds == <<"instance1", "instance2", "instance3", "instance4",
                 "instance5", "instance6">>

\* ------------------------------------------------------------------- heap
NoProto == "null"
Absent ==
  [kind |-> "absent", value |-> undefined, get |-> <<>>, enumerable |-> FALSE]
Data(v, e) == [kind |-> "data", value |-> v, get |-> <<>>, enumerable |-> e]
\* an accessor without a setter; get holds what the getter closes over
Accessor(g, e) ==
  [kind |-> "accessor", value |-> undefined, get |-> g, enumerable |-> e]
\* own maps the names of the own properties to their descriptors
NewObject(proto) == [proto |-> proto, own |-> <<>>, frozen |-> FALSE]
Own(h, o, name) == IF name \in DOMAIN h[o].own THEN h[o].own[name] ELSE Absent

\* [[Get]] up the prototype chain: the descriptor that answers o[name]
RECURSIVE Lookup(_, _, _)
Lookup(h, o, name) ==
  IF o = NoProto THEN Absent
  ELSE IF name \in DOMAIN h[o].own THEN h[o].own[name]
  ELSE Lookup(h, h[o].proto, name)

\* the value of o[name]; the getters of this file all return undefined
GetValue(h, o, name) ==
  LET d == Lookup(h, o, name) IN IF d.kind = "data" THEN d.value ELSE undefined

\* o.name = v  (an assignment creates or overwrites an enumerable own property)
Put(h, o, name, v) == [h EXCEPT ![o].own = (name :> Data(v, TRUE)) @@ @]

\* Object.defineProperty(o, name, {get: ...}): enumerable defaults to false
DefineGetter(h, o, name, g) ==
  [h EXCEPT ![o].own = (name :> Accessor(g, FALSE)) @@ @]

\* Object.assign(target, source): every own enumerable property of source is
\* read with [[Get]] (running its getter, if any) and assigned on target
ObjectAssign(h, target, source) ==
  LET copied == {n \in DOMAIN h[source].own : h[source].own[n].enumerable}
  IN [h EXCEPT ![target].own =
        [n \in copied |-> Data(GetValue(h, source, n), TRUE)] @@ @]

\* the getters Object.assign(target, source) runs, in property order
AssignedGetters(h, source, order) ==
  SelectSeq(order, LAMBDA n : /\ Own(h, source, n).kind = "accessor"
                               /\ Own(h, source, n).enumerable)

\* ------------------------------------------------- shared collaborators
NoError == "no error"

\* shared/invariant: throws Error(format) unless the condition holds
invariant(condition, format) == IF condition THEN NoError ELSE format

\* shared/lowPriorityWarning (development): one console warning per call
\* whose condition is false
lowPriorityWarning(w, condition, format, a, b) ==
  IF condition THEN w ELSE Append(w, <<format, a, b>>)

ReactNoopUpdateQueue == "ReactNoopUpdateQueue"

\* the objects that expose enqueueSetState and enqueueForceUpdate
UpdaterObjects == {"updater1", ReactNoopUpdateQueue}

\* --------------------------------------------------- ReactBaseClasses.js
emptyObject == "emptyObject"

SetStateMessage ==
  "setState(...): takes an object of state variables to update or a function which returns an object of state variables."

DeprecationFormat ==
  "%s(...) is deprecated in plain JavaScript React classes. %s"

Result(h, c, outcome) == [heap |-> h, calls |-> c, outcome |-> outcome]

\* updater.op(args...): a TypeError when updater has no such method
Enqueue(h, c, updater, op, args) ==
  IF updater \in UpdaterObjects
  THEN Result(h, Append(c, [updater |-> updater, op |-> op, args |-> args]),
              "returned")
  ELSE Result(h, c, "TypeError")

\* Component with `this.updater = updater` (the default is forgotten)
Component_noDefaultUpdater(h, this, props, context, updater) ==
  LET h1 == Put(h, this, "props", props)
      h2 == Put(h1, this, "context", context)
      h3 == Put(h2, this, "refs", emptyObject)
  IN Put(h3, this, "updater", updater)

\* function Component(props, context, updater)
Component(h, this, props, context, updater) ==
  LET h1 == Put(h, this, "props", props)
      h2 == Put(h1, this, "context", context)
      h3 == Put(h2, this, "refs", emptyObject)
  IN Put(h3, this, "updater",
         IF Truthy(updater) THEN updater ELSE ReactNoopUpdateQueue)

\* setState that forwards `undefined` in place of the callback
setState_dropsCallback(h, c, this, partialState, callback) ==
  LET err == invariant(\/ TypeOf(partialState) = "object"
                       \/ TypeOf(partialState) = "function"
                       \/ partialState \in {null, undefined},
                       SetStateMessage)
  IN IF err # NoError THEN Result(h, c, err)
     ELSE Enqueue(h, c, GetValue(h, this, "updater"), "enqueueSetState",
                  <<this, partialState, undefined, "setState">>)

\* setState whose check lacks `partialState == null`
setState_noNullCheck(h, c, this, partialState, callback) ==
  LET err == invariant(\/ TypeOf(partialState) = "object"
                       \/ TypeOf(partialState) = "function",
                       SetStateMessage)
  IN IF err # NoError THEN Result(h, c, err)
     ELSE Enqueue(h, c, GetValue(h, this, "updater"), "enqueueSetState",
                  <<this, partialState, callback, "setState">>)

\* setState that also assigns this.state = partialState before forwarding
setState_assignsState(h, c, this, partialState, callback) ==
  LET err == invariant(\/ TypeOf(partialState) = "object"
                       \/ TypeOf(partialState) = "function"
                       \/ partialState \in {null, undefined},
                       SetStateMessage)
  IN IF err # NoError THEN Result(h, c, err)
     ELSE Enqueue(Put(h, this, "state", partialState), c,
                  GetValue(h, this, "updater"), "enqueueSetState",
                  <<this, partialState, callback, "setState">>)

\* setState that forwards to the updater first and validates afterwards
setState_forwardsBeforeValidating(h, c, this, partialState, callback) ==
  LET err == invariant(\/ TypeOf(partialState) = "object"
                       \/ TypeOf(partialState) = "function"
                       \/ partialState \in {null, undefined},
                       SetStateMessage)
      r == Enqueue(h, c, GetValue(h, this, "updater"), "enqueueSetState",
                   <<this, partialState, callback, "setState">>)
  IN IF r.outcome # "returned" \/ err = NoError THEN r
     ELSE Result(r.heap, r.calls, err)

\* Component.prototype.setState = function(partialState, callback)
setState(h, c, this, partialState, callback) ==
  LET err == invariant(\/ TypeOf(partialState) = "object"
                       \/ TypeOf(partialState) = "function"
                       \/ partialState \in {null, undefined},
                       SetStateMessage)
  IN IF err # NoError THEN Result(h, c, err)
     ELSE Enqueue(h, c, GetValue(h, this, "updater"), "enqueueSetState",
                  <<this, partialState, callback, "setState">>)

\* Component.prototype.forceUpdate = function(callback)
forceUpdate(h, c, this, callback) ==
  Enqueue(h, c, GetValue(h, this, "updater"), "enqueueForceUpdate",
          <<this, callback, "forceUpdate">>)

deprecatedAPIs ==
  [isMounted |->
     <<"isMounted",
       "Instead, make sure to clean up subscriptions and pending requests in componentWillUnmount to prevent memory leaks.">>,
   replaceState |->
     <<"replaceState",
       "Refactor your code to use setState instead (see https://github.com/facebook/react/issues/3236).">>]

\* for (const fnName in deprecatedAPIs): insertion order
DeprecatedNames == <<"isMounted", "replaceState">>

\* defineDeprecationWarning with `enumerable: true` in the descriptor
defineDeprecationWarning_enumerable(h, methodName, info) ==
  [h EXCEPT !["Component.prototype"].own =
     (methodName :> Accessor(info, TRUE)) @@ @]

defineDeprecationWarning(h, methodName, info) ==
  DefineGetter(h, "Component.prototype", methodName, info)

\* the getter defined by defineDeprecationWarning, closed over info
DeprecationGetter(w, info) ==
  lowPriorityWarning(w, FALSE, DeprecationFormat, info[1], info[2])

\* PureComponent with `this.refs = {}`: an object of its own
PureComponent_ownRefs(h, this, props, context, updater) ==
  LET h1 == Put(h, this, "props", props)
      h2 == Put(h1, this, "context", context)
      h3 == Put(h2, this, "refs", "refs{}")
  IN Put(h3, this, "updater",
         IF Truthy(updater) THEN updater ELSE ReactNoopUpdateQueue)

\* PureComponent with `this.updater = updater` (the copy of the constructor
\* body has drifted from Component's)
PureComponent_noDefaultUpdater(h, this, props, context, updater) ==
  LET h1 == Put(h, this, "props", props)
      h2 == Put(h1, this, "context", context)
      h3 == Put(h2, this, "refs", emptyObject)
  IN Put(h3, this, "updater", updater)

\* function PureComponent(props, context, updater)
PureComponent(h, this, props, context, updater) ==
  LET h1 == Put(h, this, "props", props)
      h2 == Put(h1, this, "context", context)
      h3 == Put(h2, this, "refs", emptyObject)
  IN Put(h3, this, "updater",
         IF Truthy(updater) THEN updater ELSE ReactNoopUpdateQueue)

\* F.prototype of the three functions of the module
PrototypeOf(F) ==
  CASE F = "Component" -> "Component.prototype"
    [] F = "ComponentDummy" -> "Component.prototype"
    [] F = "PureComponent" -> "PureComponent.prototype"

\* the heap once the module body has run up to the deprecated APIs
ComponentHeap(dev) ==
  LET h0 == (emptyObject :> [NewObject(NoProto) EXCEPT !.frozen = dev])
            @@ ("Component.prototype" :>
                  [NewObject(NoProto) EXCEPT
                     !.own = "constructor" :> Data("Component", FALSE)])
      h1 == Put(h0, "Component.prototype", "isReactComponent",
                "isReactComponent{}")
      h2 == Put(h1, "Component.prototype", "setState",
                "Component.prototype.setState")
      h3 == Put(h2, "Component.prototype", "forceUpdate",
                "Component.prototype.forceUpdate")
      h4 == defineDeprecationWarning(h3, DeprecatedNames[1],
                                     deprecatedAPIs[DeprecatedNames[1]])
      h5 == defineDeprecationWarning(h4, DeprecatedNames[2],
                                     deprecatedAPIs[DeprecatedNames[2]])
  IN IF dev THEN h5 ELSE h3

\* pureComponentPrototype with the flag set on Component.prototype
pureComponentPrototype_flagOnBase(h) ==
  LET h1 == h @@ ("PureComponent.prototype" :>
                    NewObject("Component.prototype"))
      h2 == Put(h1, "PureComponent.prototype", "constructor", "PureComponent")
      h3 == ObjectAssign(h2, "PureComponent.prototype", "Component.prototype")
  IN Put(h3, "Component.prototype", "isPureReactComponent", "true")

\* const pureComponentPrototype = (PureComponent.prototype = new ComponentDummy())
\* and the three statements after it
pureComponentPrototype(h) ==
  LET h1 == h @@ ("PureComponent.prototype" :>
                    NewObject(PrototypeOf("ComponentDummy")))
      h2 == Put(h1, "PureComponent.prototype", "constructor", "PureComponent")
      h3 == ObjectAssign(h2, "PureComponent.prototype", "Component.prototype")
  IN Put(h3, "PureComponent.prototype", "isPureReactComponent", "true")

\* the heap and the warnings once ReactBaseClasses.js has been evaluated
ModuleHeap(dev) == pureComponentPrototype(ComponentHeap(dev))

RECURSIVE RunGetters(_, _, _)
RunGetters(w, h, names) ==
  IF names = <<>> THEN w
  ELSE RunGetters(DeprecationGetter(w, h["Component.prototype"].own[Head(names)].get),
                  h, Tail(names))

ModuleWarnings(dev) ==
  RunGetters(<<>>, ComponentHeap(dev),
             AssignedGetters(ComponentHeap(dev), "Component.prototype",
                             DeprecatedNames))

\* f.apply(this, args) for the function values of the module
Call(f, h, c, this, args) ==
  CASE f = "Component.prototype.setState" -> setState(h, c, this, args[1], args[2])
    [] f = "Component.prototype.forceUpdate" -> forceUpdate(h, c, this, args[1])
    [] OTHER -> Result(h, c, "TypeError")

\* new F(props, context, updater)
New(F, h, id, props, context, updater) ==
  LET h1 == h @@ (id :> NewObject(PrototypeOf(F)))
  IN CASE F = "Component" -> Component(h1, id, props, context, updater)
       [] F = "PureComponent" -> PureComponent(h1, id, props, context, updater)

\* --------------------------------------------------------------- React.js
REACT_CONCURRENT_MODE_TYPE == "Symbol(react.concurrent_mode)"

\* const React = {...}
ReactNamespace(dev) ==
  [Children |-> "Children{}", createRef |-> "createRef",
   Component |-> "Component", PureComponent |-> "PureComponent",
   createContext |-> "createContext", forwardRef |-> "forwardRef",
   lazy |-> "lazy", memo |-> "memo", error |-> "error", warn |-> "warn",
   useCallback |-> "useCallback", useContext |-> "useContext",
   useEffect |-> "useEffect", useImperativeHandle |-> "useImperativeHandle",
   useDebugValue |-> "useDebugValue", useLayoutEffect |-> "useLayoutEffect",
   useMemo |-> "useMemo", useReducer |-> "useReducer", useRef |-> "useRef",
   useState |-> "useState",
   Fragment |-> "Symbol(react.fragment)", Profiler |-> "Symbol(react.profiler)",
   StrictMode |-> "Symbol(react.strict_mode)",
   Suspense |-> "Symbol(react.suspense)",
   createElement |->
     IF dev THEN "createElementWithValidation" ELSE "createElement",
   cloneElement |->
     IF dev THEN "cloneElementWithValidation" ELSE "cloneElement",
   createFactory |->
     IF dev THEN "createFactoryWithValidation" ELSE "createFactory",
   isValidElement |-> "isValidElement", version |-> "ReactVersion",
   unstable_ConcurrentMode |-> REACT_CONCURRENT_MODE_TYPE,
   __SECRET_INTERNALS_DO_NOT_USE_OR_YOU_WILL_BE_FIRED |->
     "ReactSharedInternals"]

\* the feature-flag block without `React.unstable_ConcurrentMode = undefined`
FeatureFlags_keepsUnstable(R, flag) ==
  IF flag THEN ("ConcurrentMode" :> REACT_CONCURRENT_MODE_TYPE) @@ R ELSE R

\* if (enableStableConcurrentModeAPIs) { ... }
FeatureFlags(R, flag) ==
  IF flag
  THEN ("ConcurrentMode" :> REACT_CONCURRENT_MODE_TYPE)
       @@ [R EXCEPT !["unstable_ConcurrentMode"] = undefined]
  ELSE R

\* ------------------------------------------------------------ the machine
Init ==
  /\ DEV \in BOOLEAN
  /\ enableStableConcurrentModeAPIs \in BOOLEAN
  /\ heap = ModuleHeap(DEV)
  /\ warnings = ModuleWarnings(DEV)
  /\ React = ReactNamespace(DEV)
  /\ pc = "flags"
  /\ constructed = <<>>
  /\ trace = <<>>
  /\ calls = <<>>

\* React.js, after the object literal: the feature-flag block and the export
ApplyFeatureFlags ==
  /\ pc = "flags"
  /\ React' = FeatureFlags(React, enableStableConcurrentModeAPIs)
  /\ pc' = "exported"
  /\ UNCHANGED <<DEV, enableStableConcurrentModeAPIs, heap, constructed,
                 trace, calls, warnings>>

Instances == {constructed[i].id : i \in 1..Len(constructed)}
Steps == Len(constructed) + Len(trace)

\* new React.Component(...) or new React.PureComponent(...)
Construct ==
  /\ pc = "exported"
  /\ Steps < MaxSteps
  /\ Len(constructed) < Len(InstanceIds)
  /\ \E name \in {"Component", "PureComponent"}, args \in ConstructorArgs :
       LET id == InstanceIds[Len(constructed) + 1] IN
         /\ heap' = New(React[name], heap, id, args[1], args[2], args[3])
         /\ constructed' = Append(constructed,
              [id |-> id, class |-> name, props |-> args[1],
               context |-> args[2], updater |-> args[3]])
  /\ UNCHANGED <<DEV, enableStableConcurrentModeAPIs, React, pc, trace,
                 calls, warnings>>

Event(this, method, args, outcome) ==
  [this |-> this, method |-> method, args |-> args, outcome |-> outcome]

\* instance.setState(partialState, callback)
CallSetState ==
  /\ Steps < MaxSteps
  /\ \E this \in Instances, args \in SetStateArgs :
       LET r == Call(GetValue(heap, this, "setState"), heap, calls, this,
                     args) IN
         /\ heap' = r.heap
         /\ calls' = r.calls
         /\ trace' = Append(trace, Event(this, "setState", args, r.outcome))
  /\ UNCHANGED <<DEV, enableStableConcurrentModeAPIs, React, pc, constructed,
                 warnings>>

\* instance.forceUpdate(callback)
CallForceUpdate ==
  /\ Steps < MaxSteps
  /\ \E this \in Instances, callback \in Callbacks :
       LET r == Call(GetValue(heap, this, "forceUpdate"), heap, calls, this,
                     <<callback>>) IN
         /\ heap' = r.heap
         /\ calls' = r.calls
         /\ trace' = Append(trace, Event(this, "forceUpdate", <<callback>>,
                                         r.outcome))
  /\ UNCHANGED <<DEV, enableStableConcurrentModeAPIs, React, pc, constructed,
                 warnings>>

\* instance.isMounted or instance.replaceState, read as a property
ReadDeprecated ==
  /\ Steps < MaxSteps
  /\ \E this \in Instances, name \in {"isMounted", "replaceState"} :
       LET d == Lookup(heap, this, name) IN
         /\ warnings' = IF d.kind = "accessor"
                        THEN DeprecationGetter(warnings, d.get)
                        ELSE warnings
         /\ trace' = Append(trace, Event(this, "get", <<name>>,
                                         GetValue(heap, this, name)))
  /\ UNCHANGED <<DEV, enableStableConcurrentModeAPIs, heap, React, pc,
                 constructed, calls>>

Next ==
  \/ ApplyFeatureFlags
  \/ Construct
  \/ CallSetState
  \/ CallForceUpdate
  \/ ReadDeprecated

Spec == Init /\ [][Next]_vars

\* ------------------------------------------------------ reading the state
Last(s) == s[Len(s)]

\* the partialState values the documentation of setState admits
IsObjectFunctionOrNullish(v) ==
  v \in Objects \cup Functions \cup {null, undefined}

IsMethodCall(e) == e.method \in {"setState", "forceUpdate"}

\* the instance field as a value (undefined when the instance has no such
\* own property)
Field(h, this, name) == Own(h, this, name).value

InstanceFields == {"state", "props", "context", "refs", "updater"}

\* a step of the machine that made one more call or read on an instance
MadeCall == Len(trace') = Len(trace) + 1

\* ------------------------------------------------------------------ claims

\* C1: every setState(partialState, callback) with an object, function, null
\* or undefined partialState forwards exactly one
\* enqueueSetState(instance, partialState, callback, 'setState') to the
\* updater bound to the instance, every forceUpdate(callback) exactly one
\* enqueueForceUpdate(instance, callback, 'forceUpdate'); the updater calls
\* are these, in the order the calls were made, and no others.
ForwardedCall(e) ==
  IF e.method = "setState"
  THEN [updater |-> Field(heap, e.this, "updater"), op |-> "enqueueSetState",
        args |-> <<e.this, e.args[1], e.args[2], "setState">>]
  ELSE [updater |-> Field(heap, e.this, "updater"),
        op |-> "enqueueForceUpdate",
        args |-> <<e.this, e.args[1], "forceUpdate">>]

ForwardingEvents ==
  SelectSeq(trace, LAMBDA e :
    \/ e.method = "forceUpdate"
    \/ e.method = "setState" /\ IsObjectFunctionOrNullish(e.args[1]))

C1_ForwardsEachCallOnceInOrder ==
  /\ Len(calls) = Len(ForwardingEvents)
  /\ \A i \in 1..Len(calls) : calls[i] = ForwardedCall(ForwardingEvents[i])

C1_Witness ==
  /\ Len(calls) >= 2
  /\ calls[1] = [updater |-> ReactNoopUpdateQueue, op |-> "enqueueForceUpdate",
                 args |-> <<"instance1", "callback1", "forceUpdate">>]
  /\ calls[2] = [updater |-> ReactNoopUpdateQueue, op |-> "enqueueSetState",
                 args |-> <<"instance1", "fn1", "callback1", "setState">>]

\* C2: setState raises the invariant error with the setState(...) message
\* exactly when its first argument is neither an object, nor a function, nor
\* null or undefined; every other first argument is accepted without error.
C2_RejectsExactlyOtherTypes ==
  \A i \in 1..Len(trace) :
    trace[i].method = "setState" =>
      IF IsObjectFunctionOrNullish(trace[i].args[1])
      THEN trace[i].outcome = "returned"
      ELSE trace[i].outcome = SetStateMessage

C2_Witness ==
  /\ \E i \in 1..Len(trace) :
       trace[i].method = "setState" /\ trace[i].args[1] = "true"
       /\ trace[i].outcome = SetStateMessage
  /\ \E i \in 1..Len(trace) :
       trace[i].method = "setState" /\ trace[i].args[1] = undefined
       /\ trace[i].outcome = "returned"

\* C3: the refs field of every instance of either class is the one shared
\* empty placeholder object from its construction on, and neither setState
\* nor forceUpdate reassigns refs or adds a property to the placeholder.
C3_RefsIsSharedEmptyObject ==
  /\ heap[emptyObject].own = <<>>
  /\ \A this \in Instances :
       Own(heap, this, "refs") = Data(emptyObject, TRUE)

C3_Witness ==
  /\ \E i, j \in 1..Len(constructed) :
       constructed[i].class = "Component"
       /\ constructed[j].class = "PureComponent"
  /\ \E i, j \in 1..Len(trace) :
       /\ trace[i].method = "setState" /\ trace[i].outcome = "returned"
       /\ trace[j].method = "forceUpdate" /\ trace[j].outcome = "returned"

\* C4: a constructed instance holds the props and the context it was given,
\* and its updater is the updater it was given, or ReactNoopUpdateQueue when
\* none (or a falsy one) was given.
C4_ConstructorStoresArguments ==
  \A i \in 1..Len(constructed) :
    LET c == constructed[i] IN
      /\ Own(heap, c.id, "props") = Data(c.props, TRUE)
      /\ Own(heap, c.id, "context") = Data(c.context, TRUE)
      /\ Own(heap, c.id, "updater") =
           Data(IF c.updater \in Objects THEN c.updater
                ELSE ReactNoopUpdateQueue, TRUE)

C4_Witness ==
  \E i, j \in 1..Len(constructed) :
    /\ constructed[i].class = "Component"
    /\ constructed[i].updater = undefined
    /\ Field(heap, constructed[i].id, "updater") = ReactNoopUpdateQueue
    /\ constructed[j].class = "PureComponent"
    /\ constructed[j].updater = "updater1"
    /\ Field(heap, constructed[j].id, "updater") = "updater1"
    /\ Field(heap, constructed[j].id, "props") = "props2"

\* C5: every PureComponent instance reads isPureReactComponent as true, no
\* Component instance and not Component.prototype has the property, and
\* instances of both classes read the isReactComponent marker; before and
\* after any setState and forceUpdate calls.
C5_PureMarkerOnlyOnPureComponent ==
  /\ Lookup(heap, "Component.prototype", "isPureReactComponent") = Absent
  /\ \A i \in 1..Len(constructed) :
       LET c == constructed[i] IN
         /\ GetValue(heap, c.id, "isReactComponent") = "isReactComponent{}"
         /\ c.class = "PureComponent" =>
              GetValue(heap, c.id, "isPureReactComponent") = "true"
         /\ c.class = "Component" =>
              Lookup(heap, c.id, "isPureReactComponent") = Absent

C5_Witness ==
  /\ \E i, j \in 1..Len(constructed) :
       /\ constructed[i].class = "Component"
       /\ constructed[j].class = "PureComponent"
       /\ GetValue(heap, constructed[j].id, "isPureReactComponent") = "true"
  /\ \E i \in 1..Len(trace) : trace[i].method = "setState"
  /\ \E i \in 1..Len(trace) : trace[i].method = "forceUpdate"

\* C6: in a development build every read of isMounted or replaceState on an
\* instance yields undefined and emits one deprecation warning naming the
\* member, so the warnings are exactly the reads, in order; in a production
\* build the instances have no such property and nothing is warned.
DeprecatedReads == SelectSeq(trace, LAMBDA e : e.method = "get")

C6_OneWarningPerDeprecatedRead ==
  /\ \A i \in 1..Len(DeprecatedReads) : DeprecatedReads[i].outcome = undefined
  /\ DEV =>
       /\ Len(warnings) = Len(DeprecatedReads)
       /\ \A i \in 1..Len(warnings) :
            /\ warnings[i][1] = DeprecationFormat
            /\ warnings[i][2] = DeprecatedReads[i].args[1]
  /\ ~DEV =>
       /\ warnings = <<>>
       /\ \A this \in Instances, name \in {"isMounted", "replaceState"} :
            Lookup(heap, this, name) = Absent

C6_Witness ==
  /\ DEV
  /\ Len(warnings) = 2
  /\ warnings[1][2] = "replaceState"
  /\ warnings[2][2] = "isMounted"
  /\ \E i \in 1..Len(constructed) :
       /\ constructed[i].class = "PureComponent"
       /\ DeprecatedReads[2].this = constructed[i].id

\* C7: a setState or forceUpdate call leaves the state, props, context, refs
\* and updater fields of the instance (of every instance) as they were.
C7_CallsLeaveInstanceFieldsUnchanged ==
  [][(MadeCall /\ IsMethodCall(Last(trace'))) =>
       \A this \in Instances, name \in InstanceFields :
         Own(heap', this, name) = Own(heap, this, name)]_vars

C7_Witness ==
  /\ Len(trace) >= 2
  /\ trace[1].method = "setState" /\ trace[1].args[1] = "obj1"
  /\ trace[1].outcome = "returned"
  /\ trace[2].method = "forceUpdate"
  /\ Own(heap, trace[1].this, "state") = Absent

\* C8: a Component instance and a PureComponent instance constructed with the
\* same arguments and given the same setState/forceUpdate calls have equal
\* props, context, refs and updater fields, the same outcome (return or
\* error) call by call, and the same updater calls apart from the instance
\* argument; PureComponent.prototype has Component.prototype's setState and
\* forceUpdate functions as its own and PureComponent as its constructor.
MethodCallsOn(this) ==
  SelectSeq(trace, LAMBDA e : e.this = this /\ IsMethodCall(e))

MapSeq(s, Op(_)) == [i \in 1..Len(s) |-> Op(s[i])]

InputsOn(this) ==
  MapSeq(MethodCallsOn(this), LAMBDA e : <<e.method, e.args>>)
OutcomesOn(this) == MapSeq(MethodCallsOn(this), LAMBDA e : e.outcome)
UpdaterCallsFor(this) ==
  MapSeq(SelectSeq(calls, LAMBDA c : c.args[1] = this),
         LAMBDA c : <<c.updater, c.op, Tail(c.args)>>)

SameConstruction(c, p) ==
  /\ c.class = "Component" /\ p.class = "PureComponent"
  /\ c.props = p.props /\ c.context = p.context /\ c.updater = p.updater
  /\ InputsOn(c.id) = InputsOn(p.id)

C8_PureComponentBehavesAsComponent ==
  /\ \A name \in {"setState", "forceUpdate"} :
       /\ Own(heap, "PureComponent.prototype", name).kind = "data"
       /\ Own(heap, "PureComponent.prototype", name).value
            = Own(heap, "Component.prototype", name).value
  /\ Own(heap, "PureComponent.prototype", "constructor").value = "PureComponent"
  /\ \A i, j \in 1..Len(constructed) :
       LET c == constructed[i]
           p == constructed[j]
       IN SameConstruction(c, p) =>
            /\ \A name \in {"props", "context", "refs", "updater"} :
                 Own(heap, c.id, name) = Own(heap, p.id, name)
            /\ OutcomesOn(c.id) = OutcomesOn(p.id)
            /\ UpdaterCallsFor(c.id) = UpdaterCallsFor(p.id)

C8_Witness ==
  \E i, j \in 1..Len(constructed) :
    /\ SameConstruction(constructed[i], constructed[j])
    /\ constructed[i].updater = undefined
    /\ InputsOn(constructed[i].id) = <<<<"setState", <<"fn1", "callback1">>>>>>
    /\ Len(UpdaterCallsFor(constructed[j].id)) = 1

\* C9: once React.js has run, the concurrent-mode marker is under exactly one
\* name: with enableStableConcurrentModeAPIs on, React.ConcurrentMode is the
\* marker and React.unstable_ConcurrentMode is undefined; with it off,
\* React.unstable_ConcurrentMode is the marker, React has no ConcurrentMode
\* property and React is the object literal as it was built.
C9_ConcurrentModeUnderOneName ==
  pc = "exported" =>
    IF enableStableConcurrentModeAPIs
    THEN /\ "ConcurrentMode" \in DOMAIN React
         /\ React["ConcurrentMode"] = REACT_CONCURRENT_MODE_TYPE
         /\ React["unstable_ConcurrentMode"] = undefined
    ELSE /\ "ConcurrentMode" \notin DOMAIN React
         /\ React["unstable_ConcurrentMode"] = REACT_CONCURRENT_MODE_TYPE
         /\ React = ReactNamespace(DEV)

C9_Witness ==
  /\ pc = "exported"
  /\ enableStableConcurrentModeAPIs
  /\ "ConcurrentMode" \in DOMAIN React
  /\ React["ConcurrentMode"] = REACT_CONCURRENT_MODE_TYPE

\* C10: a setState call that raises forwards nothing to the updater and
\* changes no field of any instance, and after every call the number of
\* updater calls is the number of setState/forceUpdate calls that did not
\* raise (so the calls after a rejected one are still forwarded).
Returned(t) == SelectSeq(t, LAMBDA e : IsMethodCall(e) /\ e.outcome = "returned")

C10_RejectedCallForwardsNothing ==
  [][MadeCall =>
       /\ Len(calls') = Len(Returned(trace'))
       /\ (IsMethodCall(Last(trace')) /\ Last(trace').outcome # "returned") =>
            calls' = calls /\ heap' = heap]_vars

C10_Witness ==
  /\ Len(trace) = 2
  /\ trace[1].method = "setState" /\ trace[1].outcome = SetStateMessage
  /\ trace[2].method = "setState" /\ trace[2].outcome = "returned"
  /\ trace[1].this = trace[2].this
  /\ Len(calls) = 1

====
